---- MODULE Spec2Model ----
(***************************************************************************)
(* Model of the tool-augmented analytics agent of PortSymphony:            *)
(*   - the domain knowledge base (backend/psa_knowledge_base.py),          *)
(*   - the agent orchestrator, tool executor and response validator        *)
(*     (backend/dashboard_agent.py).                                       *)
(*                                                                         *)
(* Numbers.  Metric values are Python floats; the model keeps them as      *)
(* fixed-point integers counting tenths (7.2 hours is 72), which is the    *)
(* precision the code itself prints ({x:.1f}).  Thresholds are scaled the  *)
(* same way.  float('inf') is the bound Infinity.                          *)
(*                                                                         *)
(* Python dicts are records; dict.get(k, d) is Get(d, k, default); None is *)
(* the record PyNone.                                                      *)
(***************************************************************************)
EXTENDS Integers, Sequences, FiniteSets, TLC

VARIABLES
    \* ---- knowledge base: one call of an interpret function
    kb_metric,              \* the threshold table / interpret function used
    kb_value,               \* the numeric argument (tenths)
    kb_result,              \* what the call returned (PyNone before the call)
    \* ---- validator: _validate_and_enhance_response applied repeatedly
    v_data,                 \* the response_data dict under validation
    v_passes,               \* the responses after 0, 1, 2 passes
    \* ---- one process_query invocation
    pc,                     \* "idle", "await", "exec", "done"
    conversation_history,   \* caller-supplied history
    data,                   \* what the Data Access collaborator holds
    messages,               \* the Conversation
    iteration,
    function_calls_made,
    last_function_result,
    pending,                \* tool calls of the current reply not yet run
    backend_calls,          \* number of chat-completion calls made
    executions,             \* log of executor runs (tool_call ids, in order)
    replies,                \* log of the backend's replies
    result,                 \* what process_query returned (PyNone before)
    \* ---- the DashboardAgent object
    agent,                  \* its fields few_shot_examples and tools
    \* ---- process_query invocations that interleave on the one agent
    inv                     \* the locals of each invocation

kb_vars == <<kb_metric, kb_value, kb_result>>
v_vars == <<v_data, v_passes>>
agent_vars == <<pc, conversation_history, data, messages, iteration,
                function_calls_made, last_function_result, pending,
                backend_calls, executions, replies, result, agent>>
vars == <<kb_vars, v_vars, agent_vars, inv>>

(***************************************************************************)
(* Python values                                                           *)
(***************************************************************************)
PyNone == [py_none |-> TRUE]

Get(d, k, default) == IF k \in DOMAIN d THEN d[k] ELSE default

\* truthiness of a number, of a dict-or-None
TruthyNum(n) == n # 0
TruthyDict(d) == d # PyNone /\ DOMAIN d # {}

\* an exception raised instead of a value returned
Raised(what) == [raised |-> what]
IsRaised(x) == "raised" \in DOMAIN x

(***************************************************************************)
(* Fixed-point numbers                                                     *)
(***************************************************************************)
Scale == 10

Fin(units) == [inf |-> FALSE, v |-> units * Scale]
Infinity == [inf |-> TRUE, v |-> 0]

\* x < b, x <= b, b <= x for a value x (tenths) and a table bound b
Lt(x, b) == b.inf \/ x < b.v
Le(x, b) == b.inf \/ x <= b.v
Ge(x, b) == ~b.inf /\ b.v <= x

(***************************************************************************)
(* PERFORMANCE_THRESHOLDS: each table in the dict's insertion order        *)
(***************************************************************************)
Range(level, lo, hi) == [level |-> level, min |-> lo, max |-> hi]

PERFORMANCE_THRESHOLDS_gap ==
    [wait_time |-> <<Range("excellent", Fin(0), Fin(2)),
                     Range("good", Fin(2), Fin(4)),
                     Range("concerning", Fin(4), Fin(6)),
                     Range("critical", Fin(6), Infinity)>>,
     arrival_accuracy |-> <<Range("excellent", Fin(95), Fin(100)),
                            Range("good", Fin(90), Fin(95)),
                            Range("needs_improvement", Fin(85), Fin(90)),
                            Range("poor", Fin(0), Fin(80))>>,
     berth_utilization |-> <<Range("optimal", Fin(75), Fin(85)),
                             Range("underutilized", Fin(0), Fin(75)),
                             Range("congested", Fin(85), Fin(100))>>,
     carbon_performance |-> <<Range("excellent", Fin(20), Infinity),
                              Range("good", Fin(15), Fin(20)),
                              Range("acceptable", Fin(10), Fin(15)),
                              Range("poor", Fin(0), Fin(10))>>]

PERFORMANCE_THRESHOLDS ==
    [wait_time |-> <<Range("excellent", Fin(0), Fin(2)),
                     Range("good", Fin(2), Fin(4)),
                     Range("concerning", Fin(4), Fin(6)),
                     Range("critical", Fin(6), Infinity)>>,
     arrival_accuracy |-> <<Range("excellent", Fin(95), Fin(100)),
                            Range("good", Fin(90), Fin(95)),
                            Range("needs_improvement", Fin(85), Fin(90)),
                            Range("poor", Fin(0), Fin(85))>>,
     berth_utilization |-> <<Range("optimal", Fin(75), Fin(85)),
                             Range("underutilized", Fin(0), Fin(75)),
                             Range("congested", Fin(85), Fin(100))>>,
     carbon_performance |-> <<Range("excellent", Fin(20), Infinity),
                              Range("good", Fin(15), Fin(20)),
                              Range("acceptable", Fin(10), Fin(15)),
                              Range("poor", Fin(0), Fin(10))>>]

Metrics == DOMAIN PERFORMANCE_THRESHOLDS
InterpretedMetrics == {"wait_time", "arrival_accuracy", "berth_utilization"}

(***************************************************************************)
(* The membership tests of the three interpret functions                   *)
(***************************************************************************)
\* interpret_wait_time:  min_val <= hours < max_val
InRangeClosed(x, r) == Ge(x, r.min) /\ Le(x, r.max)
InRangeHalfOpen(x, r) == Ge(x, r.min) /\ Lt(x, r.max)

\* interpret_arrival_accuracy, interpret_berth_utilization:
\*   min_val <= x <= max_val
InRangeInclusive(x, r) == Ge(x, r.min) /\ Le(x, r.max)

\* the test each interpret function applies
InRange(metric, x, r) ==
    IF metric = "wait_time" THEN InRangeHalfOpen(x, r)
                            ELSE InRangeInclusive(x, r)

\* the ranges of a table whose test x passes, as indices in table order
Matching(metric, x) ==
    {i \in DOMAIN PERFORMANCE_THRESHOLDS[metric] :
        InRange(metric, x, PERFORMANCE_THRESHOLDS[metric][i])}

\* "for level, (min_val, max_val) in table.items(): if test: return ..."
FirstMatch(metric, x) ==
    CHOOSE i \in Matching(metric, x) : \A j \in Matching(metric, x) : i <= j

(***************************************************************************)
(* The icons and messages dicts of the interpret functions.  A message is  *)
(* an f-string: the model keeps its fixed wording and the value printed.   *)
(***************************************************************************)
WaitIcons == [excellent |-> "check", good |-> "check",
              concerning |-> "warning", critical |-> "siren"]
WaitMessages ==
    [excellent |-> "is excellent - well below the 2-hour target",
     good |-> "is acceptable but trending toward target limit",
     concerning |-> "exceeds target (2 hours) - attention needed",
     critical |-> "is CRITICAL - immediate action required"]

AccuracyIcons == [excellent |-> "check", good |-> "check",
                  needs_improvement |-> "warning", poor |-> "red_circle"]
AccuracyMessages ==
    [excellent |-> "is excellent - exceeding 95% target",
     good |-> "is good - meeting 90% target",
     needs_improvement |-> "needs improvement - below 90% target",
     poor |-> "is poor - significantly below 90% target"]

UtilizationIcons == [optimal |-> "check", underutilized |-> "chart_down",
                     congested |-> "warning"]
UtilizationMessages ==
    [optimal |-> "is optimal (target: 75-85%)",
     underutilized |-> "indicates underutilization - opportunity to increase throughput",
     congested |-> "is high - risk of congestion and delays"]

Message(subject, x, wording) == [subject |-> subject, value |-> x, wording |-> wording]

Unknown(what) ==
    [level |-> "unknown", icon |-> "question",
     message |-> Message(what, 0, "data unavailable")]

\* the dict an interpret function returns for the matched level; icons[level]
\* and messages[level] raise KeyError for a level the dicts do not hold
Classified(subject, x, level, icons, msgs, attention) ==
    IF level \notin DOMAIN icons \/ level \notin DOMAIN msgs
    THEN Raised("KeyError")
    ELSE [level |-> level,
          icon |-> icons[level],
          message |-> Message(subject, x, msgs[level]),
          action_needed |-> level \in attention,
          severity |-> level]

interpret_wait_time_raising(hours) ==
    IF Matching("wait_time", hours) = {}
    THEN Raised("ValueError")
    ELSE Classified("Wait time", hours,
             PERFORMANCE_THRESHOLDS["wait_time"][FirstMatch("wait_time", hours)].level,
             WaitIcons, WaitMessages, {"concerning", "critical"})

interpret_wait_time(hours) ==
    IF Matching("wait_time", hours) = {}
    THEN Unknown("Wait time")
    ELSE Classified("Wait time", hours,
             PERFORMANCE_THRESHOLDS["wait_time"][FirstMatch("wait_time", hours)].level,
             WaitIcons, WaitMessages, {"concerning", "critical"})

interpret_arrival_accuracy_lenient(accuracy) ==
    IF Matching("arrival_accuracy", accuracy) = {}
    THEN Unknown("Arrival accuracy")
    ELSE Classified("Arrival accuracy", accuracy,
             PERFORMANCE_THRESHOLDS["arrival_accuracy"][FirstMatch("arrival_accuracy", accuracy)].level,
             AccuracyIcons, AccuracyMessages, {"poor"})

interpret_arrival_accuracy(accuracy) ==
    IF Matching("arrival_accuracy", accuracy) = {}
    THEN Unknown("Arrival accuracy")
    ELSE Classified("Arrival accuracy", accuracy,
             PERFORMANCE_THRESHOLDS["arrival_accuracy"][FirstMatch("arrival_accuracy", accuracy)].level,
             AccuracyIcons, AccuracyMessages, {"needs_improvement", "poor"})

interpret_berth_utilization(utilization) ==
    IF Matching("berth_utilization", utilization) = {}
    THEN Unknown("Utilization")
    ELSE Classified("Berth utilization", utilization,
             PERFORMANCE_THRESHOLDS["berth_utilization"][FirstMatch("berth_utilization", utilization)].level,
             UtilizationIcons, UtilizationMessages,
             {"underutilized", "congested"})

interpret(metric, x) ==
    CASE metric = "wait_time" -> interpret_wait_time(x)
      [] metric = "arrival_accuracy" -> interpret_arrival_accuracy(x)
      [] metric = "berth_utilization" -> interpret_berth_utilization(x)

(***************************************************************************)
(* Recommendations (psa_knowledge_base.py).  A recommendation is an        *)
(* f-string; the model keeps its fixed wording.                            *)
(***************************************************************************)
BERTH_CAPACITY ==
    [B01 |-> "large", B02 |-> "large", B03 |-> "medium", B04 |-> "medium",
     B05 |-> "large", B06 |-> "large", B07 |-> "small", B08 |-> "small"]

\* a berth argument is a berth id or the empty string (None / absent)
NoBerth == ""

get_recommendations_for_wait_time(wait_time, berth, vessel_count) ==
    IF wait_time > 6 * Scale
    THEN <<"CRITICAL: wait time - Expedite current operations immediately",
           "Emergency actions: Fast-track departures, consider reassignment to alternative berths">>
         \o (IF vessel_count > 3
             THEN <<"Multiple vessels affected - coordinate with port authority for emergency capacity">>
             ELSE <<>>)
    ELSE IF wait_time > 4 * Scale
    THEN <<"HIGH PRIORITY: wait time - Monitor closely and accelerate operations",
           "Consider: Optimizing berth allocation, adjusting vessel arrival schedule">>
         \o (IF berth # NoBerth /\ berth \in DOMAIN BERTH_CAPACITY
                /\ BERTH_CAPACITY[berth] = "small"
             THEN <<"Note: berth has limited capacity - consider redirecting to larger berths (B01, B02, B05, B06)">>
             ELSE <<>>)
    ELSE IF wait_time > 2 * Scale
    THEN <<"Monitor - wait time trending above 2-hour target",
           "Preventive action: Review upcoming schedule for potential congestion">>
    ELSE <<"Wait time within target - maintain current operations">>

get_recommendations_for_accuracy(accuracy) ==
    IF accuracy < 85 * Scale
    THEN <<"POOR PERFORMANCE: arrival accuracy",
           "Root cause analysis needed: Check ETA prediction models, weather routing, communication protocols",
           "Immediate actions: Improve vessel-port communication, enhance traffic monitoring">>
    ELSE IF accuracy < 90 * Scale
    THEN <<"BELOW TARGET: arrival accuracy - target is 90%+",
           "Suggestions: Review ETA calculation methods, improve weather forecast integration">>
    ELSE IF accuracy < 95 * Scale
    THEN <<"GOOD: arrival accuracy - slight room for improvement",
           "Fine-tuning opportunity: Optimize last-mile navigation, refine berth allocation timing">>
    ELSE <<"EXCELLENT: arrival accuracy - maintain current practices">>

get_recommendations_for_utilization(utilization) ==
    IF utilization > 90 * Scale
    THEN <<"HIGH UTILIZATION - risk of congestion",
           "Actions: Implement arrival time windows, optimize turnaround times, prepare overflow plans",
           "Consider: Dynamic berth allocation, express lanes for fast turnaround vessels">>
    ELSE IF utilization > 85 * Scale
    THEN <<"APPROACHING CAPACITY: utilization",
           "Monitor closely and prepare contingency plans">>
    ELSE IF utilization < 70 * Scale
    THEN <<"UNDERUTILIZED - opportunity to increase throughput",
           "Opportunities: Attract additional vessel calls, reduce turnaround time, optimize scheduling",
           "Potential gain: capacity available">>
    ELSE <<"OPTIMAL: utilization - maintain current balance">>

\* get_berth_specific_insights: an error dict for a berth the table lacks
get_berth_specific_insights(berth_id) ==
    IF berth_id \notin DOMAIN BERTH_CAPACITY
    THEN [error |-> "Berth not found in database"]
    ELSE [id |-> berth_id,
          capacity_class |-> BERTH_CAPACITY[berth_id],
          best_for |-> CASE BERTH_CAPACITY[berth_id] = "large" ->
                               "Ultra-large container vessels (ULCV), priority shipments"
                         [] BERTH_CAPACITY[berth_id] = "medium" ->
                               "Standard container vessels, regional services"
                         [] OTHER -> "Smaller vessels, feeder services, quick turnarounds"]

\* list(dict.fromkeys(xs)): drop repeats, keep first occurrences in order
RECURSIVE Dedup(_)
Dedup(xs) ==
    IF xs = <<>> THEN <<>>
    ELSE LET front == Dedup(SubSeq(xs, 1, Len(xs) - 1))
             last == xs[Len(xs)]
         IN IF \E i \in DOMAIN front : front[i] = last
            THEN front ELSE Append(front, last)

(***************************************************************************)
(* The Data Access collaborator (backend/dashboard_data_access.py), seen   *)
(* from the agent: four read-only queries over what the port database      *)
(* holds.  `d` is that content: the current metrics and the number of      *)
(* vessel records; d.raises makes every query raise.                       *)
(***************************************************************************)
EmptyDict == [k \in {} |-> PyNone]

\* d with key k set to v
With(d, k, v) == [x \in DOMAIN d \cup {k} |-> IF x = k THEN v ELSE d[x]]

data_get_current_state(d) ==
    IF d.raises THEN Raised("data access")
    ELSE [performance |-> [avg_arrival_accuracy |-> d.avg_arrival_accuracy,
                           avg_wait_time |-> d.avg_wait_time,
                           total_carbon_saved |-> d.total_carbon_saved],
          berths |-> [total_utilization |-> d.total_utilization],
          vessels |-> [total_count |-> d.count]]

data_filter_data(d, filters) ==
    IF d.raises THEN Raised("data access")
    ELSE IF d.count = 0 THEN [count |-> 0, summary |-> EmptyDict]
    ELSE [count |-> d.count,
          summary |-> [count |-> d.count, avg_wait_time |-> d.avg_wait_time],
          filters_applied |-> filters]

data_analyze_delays(d, berth, time_period) ==
    IF d.raises THEN Raised("data access")
    ELSE IF d.count = 0 THEN [total_delays |-> 0, message |-> "No delays found"]
    ELSE IF d.avg_wait_time > 2 * Scale
         THEN [total_delays |-> d.count, avg_delay_time |-> d.avg_wait_time,
               time_period |-> time_period]
         ELSE [total_delays |-> 0, avg_delay_time |-> 0,
               time_period |-> time_period]

data_get_recommendations(d, focus_area) ==
    IF d.raises THEN Raised("data access")
    ELSE LET recs ==
               CASE focus_area = "delays" ->
                        IF d.avg_wait_time > 3 * Scale
                        THEN <<"Average wait time. Target is <2 hours.">> ELSE <<>>
                 [] focus_area = "utilization" ->
                        IF d.total_utilization < 70 * Scale
                        THEN <<"Berth utilization - opportunity to increase throughput">>
                        ELSE IF d.total_utilization > 90 * Scale
                        THEN <<"Berth utilization - risk of congestion">> ELSE <<>>
                 [] focus_area = "carbon" ->
                        <<"tonnes CO2 saved so far. Continue optimizing vessel speeds and routes.">>
                 [] focus_area = "efficiency" ->
                        IF d.avg_arrival_accuracy < 90 * Scale
                        THEN <<"Arrival accuracy. Improve ETA predictions.">> ELSE <<>>
                 [] OTHER -> <<>>
         IN IF recs = <<>>
            THEN <<"Operations are running smoothly. No immediate actions needed.">>
            ELSE recs

(***************************************************************************)
(* DashboardAgent._execute_function_with_insights                          *)
(* Returns the ToolResult and the Data Access queries it made, in order.   *)
(***************************************************************************)
Executed(res, calls) == [result |-> res, data_calls |-> calls]

\* the except branch: {"error": str(e)}
ErrorResult(what) == [error |-> what]

exec_get_dashboard_state_propagating(d) ==
    LET state == data_get_current_state(d)
    IN IF IsRaised(state) THEN state
       ELSE Executed(state, <<"get_current_state">>)

exec_get_dashboard_state(d) ==
    LET state == data_get_current_state(d)
    IN IF IsRaised(state) THEN Executed(ErrorResult(state.raised), <<"get_current_state">>)
       ELSE
       LET perf == Get(state, "performance", EmptyDict)
           perf1 == IF TruthyDict(perf) /\ TruthyNum(Get(perf, "avg_wait_time", 0))
                    THEN With(perf, "wait_time_interpretation",
                              interpret_wait_time(perf.avg_wait_time))
                    ELSE perf
           perf2 == IF TruthyDict(perf) /\ TruthyNum(Get(perf, "avg_arrival_accuracy", 0))
                    THEN With(perf1, "accuracy_interpretation",
                              interpret_arrival_accuracy(perf.avg_arrival_accuracy))
                    ELSE perf1
           berths == Get(state, "berths", EmptyDict)
           berths1 == IF TruthyNum(Get(berths, "total_utilization", 0))
                      THEN With(berths, "utilization_interpretation",
                                interpret_berth_utilization(berths.total_utilization))
                      ELSE berths
           res1 == IF "performance" \in DOMAIN state
                   THEN With(state, "performance", perf2) ELSE state
           res2 == IF "berths" \in DOMAIN state
                   THEN With(res1, "berths", berths1) ELSE res1
       IN Executed(res2, <<"get_current_state">>)

exec_filter_data(d, arguments) ==
    LET res == data_filter_data(d, arguments)
    IN IF IsRaised(res) THEN Executed(ErrorResult(res.raised), <<"filter_data">>)
       ELSE
       LET summary == Get(res, "summary", EmptyDict)
           berth == Get(arguments, "berth", NoBerth)
           wait_time == Get(summary, "avg_wait_time", 0)
           interpreted == TruthyDict(summary) /\ TruthyNum(wait_time)
           interpretation == interpret_wait_time(wait_time)
           res1 == IF interpreted THEN With(res, "interpretation", interpretation)
                   ELSE res
           \* interpretation['action_needed']: KeyError on the unknown dict
           keyerror == interpreted /\ "action_needed" \notin DOMAIN interpretation
           res2 == IF interpreted /\ ~keyerror /\ interpretation.action_needed
                   THEN With(res1, "recommendations",
                             get_recommendations_for_wait_time(
                                 wait_time, berth, Get(summary, "count", 0)))
                   ELSE res1
           insights == get_berth_specific_insights(berth)
           res3 == IF TruthyDict(summary) /\ berth # NoBerth
                      /\ "error" \notin DOMAIN insights
                   THEN With(res2, "berth_insights", insights)
                   ELSE res2
       IN IF keyerror THEN Executed(ErrorResult("'action_needed'"), <<"filter_data">>)
          ELSE Executed(res3, <<"filter_data">>)

exec_analyze_delays(d, arguments) ==
    LET berth == Get(arguments, "berth", NoBerth)
        res == data_analyze_delays(d, berth, Get(arguments, "time_period", "24h"))
    IN IF IsRaised(res) THEN Executed(ErrorResult(res.raised), <<"analyze_delays">>)
       ELSE
       LET delay == Get(res, "avg_delay_time", 0)
           res1 == IF TruthyNum(delay)
                   THEN With(res, "delay_interpretation", interpret_wait_time(delay))
                   ELSE res
           total == Get(res, "total_delays", 0)
           res2 == IF TruthyNum(total) /\ total > 0
                   THEN With(res1, "recommendations",
                             get_recommendations_for_wait_time(delay, berth, total))
                   ELSE res1
       IN Executed(res2, <<"analyze_delays">>)

exec_get_recommendations(d, arguments) ==
    LET focus == Get(arguments, "focus_area", "")
        recs == data_get_recommendations(d, focus)
        state == data_get_current_state(d)
    IN IF d.raises     \* recs is then an exception, and a list otherwise
       THEN Executed(ErrorResult(recs.raised), <<"get_recommendations">>)
       ELSE IF IsRaised(state)
       THEN Executed(ErrorResult(state.raised),
                     <<"get_recommendations", "get_current_state">>)
       ELSE
       LET perf == Get(state, "performance", EmptyDict)
           berths == Get(state, "berths", EmptyDict)
           additional_recs ==
               IF focus = "delays" /\ TruthyNum(Get(perf, "avg_wait_time", 0))
               THEN get_recommendations_for_wait_time(perf.avg_wait_time, NoBerth, 0)
               ELSE IF focus = "efficiency"
                       /\ TruthyNum(Get(perf, "avg_arrival_accuracy", 0))
               THEN get_recommendations_for_accuracy(perf.avg_arrival_accuracy)
               ELSE IF focus = "utilization"
                       /\ TruthyNum(Get(berths, "total_utilization", 0))
               THEN get_recommendations_for_utilization(berths.total_utilization)
               ELSE <<>>
       IN Executed([recommendations |-> Dedup(recs \o additional_recs)],
                   <<"get_recommendations", "get_current_state">>)

_execute_function_with_insights_strict(d, function_name, arguments) ==
    CASE function_name = "get_dashboard_state" -> exec_get_dashboard_state(d)
      [] function_name = "filter_data" -> exec_filter_data(d, arguments)
      [] function_name = "analyze_delays" -> exec_analyze_delays(d, arguments)
      [] function_name = "get_recommendations" -> exec_get_recommendations(d, arguments)
      [] OTHER -> Raised("KeyError")

_execute_function_with_insights(d, function_name, arguments) ==
    CASE function_name = "get_dashboard_state" -> exec_get_dashboard_state(d)
      [] function_name = "filter_data" -> exec_filter_data(d, arguments)
      [] function_name = "analyze_delays" -> exec_analyze_delays(d, arguments)
      [] function_name = "get_recommendations" -> exec_get_recommendations(d, arguments)
      [] OTHER -> Executed(ErrorResult("Unknown function"), <<>>)

(***************************************************************************)
(* Response texts.  The validator only ever asks of a text whether its     *)
(* lower-cased form contains one of thirteen keywords, and only ever       *)
(* appends notes to it.  A text is therefore kept as: its body (which text *)
(* it is), the keywords the body contains, and the notes appended so far.  *)
(***************************************************************************)
Keywords == {"wait", "delay", "critical", "concerning", "accuracy",
             "below target", "utilization", "capacity", "congestion",
             "underutilized", "carbon", "emission", "equivalent"}

Text(body, kws) == [body |-> body, kws |-> kws, notes |-> <<>>]
EmptyText == Text("", {})

\* the keywords in the lower-cased fixed wording of an interpret message:
\* "Wait time of 7.2 hours is CRITICAL - immediate action required"
WordingKeywords(wording) ==
    CASE wording = WaitMessages["critical"] -> {"wait", "critical"}
      [] wording \in {WaitMessages[l] : l \in DOMAIN WaitMessages} -> {"wait"}
      [] OTHER -> {}

\* the keywords in the lower-cased text of an appended note
NoteKeywords(note) ==
    CASE note.kind = "Important Context" -> WordingKeywords(note.message.wording)
      [] note.kind = "Performance Note" -> {"accuracy"}
      [] note.kind = "Capacity Alert" -> {"utilization", "capacity"}
      [] note.kind = "Opportunity" -> {"utilization", "capacity"}
      [] note.kind = "Sustainability Impact" -> {}
      [] OTHER -> {}

\* kw in response_text.lower()
Contains(text, kw) ==
    kw \in text.kws \/ \E i \in DOMAIN text.notes : kw \in NoteKeywords(text.notes[i])

Concat_dropping(text, enhancements) ==
    [body |-> "", kws |-> {}, notes |-> enhancements]

\* response_text + ''.join(enhancements)
Concat(text, enhancements) == [text EXCEPT !.notes = @ \o enhancements]

Note(kind, message) == [kind |-> kind, message |-> message]

(***************************************************************************)
(* DashboardAgent._validate_and_enhance_response                           *)
(***************************************************************************)
WaitEnhancement_silent(response_text, raw_data) == <<>>

\* 1. wait time
WaitEnhancement(response_text, raw_data) ==
    IF ~(Contains(response_text, "wait") \/ Contains(response_text, "delay"))
       \/ ~TruthyDict(raw_data)
    THEN <<>>
    ELSE
    LET summary_wait == Get(Get(raw_data, "summary", EmptyDict), "avg_wait_time", 0)
        perf_wait == Get(Get(raw_data, "performance", EmptyDict), "avg_wait_time", 0)
        delay_time == Get(raw_data, "avg_delay_time", 0)
        wait_time == IF TruthyNum(summary_wait) THEN summary_wait
                     ELSE IF TruthyNum(perf_wait) THEN perf_wait
                     ELSE IF TruthyNum(delay_time) THEN delay_time
                     ELSE 0
        interpretation == interpret_wait_time(wait_time)
    IN IF TruthyNum(wait_time)
          /\ wait_time > 4 * Scale
          /\ Get(interpretation, "severity", "") \in {"concerning", "critical"}
          /\ ~Contains(response_text, "critical")
          /\ ~Contains(response_text, "concerning")
       THEN <<Note("Important Context", interpretation.message)>>
       ELSE <<>>

\* 2. accuracy
AccuracyEnhancement(response_text, raw_data) ==
    IF ~Contains(response_text, "accuracy") \/ ~TruthyDict(raw_data)
    THEN <<>>
    ELSE
    LET accuracy == Get(Get(raw_data, "performance", EmptyDict),
                        "avg_arrival_accuracy", 0)
    IN IF TruthyNum(accuracy) /\ accuracy < 90 * Scale
          /\ ~Contains(response_text, "below target")
       THEN <<Note("Performance Note", Message("accuracy", accuracy, ""))>>
       ELSE <<>>

\* 3. utilization
UtilizationEnhancement(response_text, raw_data) ==
    IF ~(Contains(response_text, "utilization") \/ Contains(response_text, "capacity"))
       \/ ~TruthyDict(raw_data)
    THEN <<>>
    ELSE
    LET util == Get(Get(raw_data, "berths", EmptyDict), "total_utilization", 0)
    IN IF ~TruthyNum(util) THEN <<>>
       ELSE IF util > 85 * Scale /\ ~Contains(response_text, "congestion")
       THEN <<Note("Capacity Alert", Message("utilization", util, ""))>>
       ELSE IF util < 70 * Scale /\ ~Contains(response_text, "underutilized")
       THEN <<Note("Opportunity", Message("utilization", util, ""))>>
       ELSE <<>>

\* 4. carbon
CarbonEnhancement(response_text, raw_data) ==
    IF ~(Contains(response_text, "carbon") \/ Contains(response_text, "emission"))
       \/ ~TruthyDict(raw_data)
    THEN <<>>
    ELSE
    LET carbon_saved == Get(Get(raw_data, "performance", EmptyDict),
                            "total_carbon_saved", 0)
    IN IF TruthyNum(carbon_saved) /\ carbon_saved > 0
          /\ ~Contains(response_text, "equivalent")
       THEN <<Note("Sustainability Impact", Message("carbon", carbon_saved, ""))>>
       ELSE <<>>

Enhancements_reversed(response_text, raw_data) ==
    CarbonEnhancement(response_text, raw_data)
    \o UtilizationEnhancement(response_text, raw_data)
    \o AccuracyEnhancement(response_text, raw_data)
    \o WaitEnhancement(response_text, raw_data)

Enhancements(response_text, raw_data) ==
    WaitEnhancement(response_text, raw_data)
    \o AccuracyEnhancement(response_text, raw_data)
    \o UtilizationEnhancement(response_text, raw_data)
    \o CarbonEnhancement(response_text, raw_data)

_validate_and_enhance_response(response_data) ==
    LET response_text == Get(response_data, "response", EmptyText)
        raw_data == Get(response_data, "raw_data", EmptyDict)
        enhancements == Enhancements(response_text, raw_data)
    IN IF enhancements # <<>>
       THEN With(response_data, "response", Concat(response_text, enhancements))
       ELSE response_data

(***************************************************************************)
(* Conversation building (DashboardAgent.process_query)                    *)
(***************************************************************************)
max_iterations == 5
HistoryWindow == 5

StakeholderRoles == {"middle_management"}

SystemMessage(what) == [role |-> "system", content |-> what]
UserMessage(what) == [role |-> "user", content |-> what]
AssistantMessage(what) == [role |-> "assistant", content |-> what]

\* self.few_shot_examples: two user/assistant pairs
few_shot_examples ==
    <<UserMessage("Are there any delays right now?"),
      AssistantMessage("I'll check the current dashboard state for you."),
      UserMessage("Show me berth B02 for the last 3 hours"),
      AssistantMessage("I'll filter the data for Berth B02 over the last 3 hours.")>>

LastK_first(xs, k) ==
    IF Len(xs) <= k THEN xs ELSE SubSeq(xs, 1, k)

\* xs[-k:]
LastK(xs, k) ==
    IF Len(xs) <= k THEN xs ELSE SubSeq(xs, Len(xs) - k + 1, Len(xs))

BuildMessages(user_query, history, stakeholder_role) ==
    <<SystemMessage("system_prompt"),
      SystemMessage(stakeholder_role)>>
    \o agent.few_shot_examples
    \o (IF history # <<>> THEN LastK(history, HistoryWindow) ELSE <<>>)
    \o <<UserMessage(user_query)>>

(***************************************************************************)
(* Tool calls and the backend's replies                                    *)
(***************************************************************************)
ToolCall(id, name, arguments) ==
    [id |-> id, type |-> "function",
     function |-> [name |-> name, arguments |-> arguments]]

\* json.loads of the arguments text of a tool call
json_loads(text) ==
    CASE text = "{}" -> EmptyDict
      [] text = "{berth: B07}" -> [berth |-> "B07"]
      [] text = "{focus_area: delays}" -> [focus_area |-> "delays"]
      [] OTHER -> Raised("JSONDecodeError")

\* json.dumps of a ToolResult: the text that holds it
json_dumps(value) == [json |-> value]

ToolMessage(tool_call, function_name, function_result) ==
    [role |-> "tool", tool_call_id |-> tool_call.id, name |-> function_name,
     content |-> json_dumps(function_result)]

RecordCall_overwrite(calls, function_name, function_args) ==
    <<[function |-> function_name, arguments |-> function_args]>>

\* function_calls_made.append({"function": ..., "arguments": ...})
RecordCall(calls, function_name, function_args) ==
    Append(calls, [function |-> function_name, arguments |-> function_args])

\* the except branch of process_query
ErrorPayload(e) ==
    [response |-> Text("I encountered an error analyzing the dashboard", {}),
     function_calls_made |-> 0,
     data_accessed |-> FALSE,
     error |-> e]

FinalResult_grounded(content, calls, last) ==
    [response |-> content,
     function_calls_made |-> Len(calls),
     functions_called |-> calls,
     data_accessed |-> TRUE,
     raw_data |-> last]

\* the return of the final-answer branch of _call_azure_with_tools
FinalResult(content, calls, last) ==
    [response |-> content,
     function_calls_made |-> Len(calls),
     functions_called |-> calls,
     data_accessed |-> Len(calls) > 0,
     raw_data |-> last]

MaxIterationsResult_silent(calls) ==
    [response |-> Text("I've analyzed multiple aspects of the dashboard data.", {}),
     function_calls_made |-> Len(calls),
     functions_called |-> calls,
     data_accessed |-> TRUE]

\* the return after the while loop
MaxIterationsResult(calls) ==
    [response |-> Text("I've analyzed multiple aspects of the dashboard data.", {}),
     function_calls_made |-> Len(calls),
     functions_called |-> calls,
     data_accessed |-> TRUE,
     warning |-> "Max iterations reached"]

(***************************************************************************)
(* Inputs of the model                                                     *)
(***************************************************************************)
MaxCalls == 3           \* tool calls in one backend reply
MaxToolCalls == 5       \* tool calls requested in one invocation
MaxHistoryTurns == 2    \* earlier turns in the caller's history
MaxUnknownCalls == 1    \* calls of an unregistered tool in one invocation

\* what the port database can hold: a day with a 7.2 h average wait, and
\* a database that is down (SpecExecutor and SpecValidator range over the
\* other values of the metrics)
DataStates ==
    {[raises |-> FALSE, avg_wait_time |-> 72, avg_arrival_accuracy |-> 880,
      total_utilization |-> 900, total_carbon_saved |-> 100, count |-> 4],
     [raises |-> TRUE, avg_wait_time |-> 0, avg_arrival_accuracy |-> 0,
      total_utilization |-> 0, total_carbon_saved |-> 0, count |-> 0]}

\* the calls a backend reply is made of: (name, arguments text)
RequestableCalls ==
    {<<"get_dashboard_state", "{}">>,
     <<"unknown_tool", "{}">>,
     <<"get_dashboard_state", "{not json">>}

\* the final answers the backend gives
OperationsFine == Text("Operations fine, no issues", {})
NoDelays == Text("No delays, operations fine", {"delay"})
WaitIsCritical == Text("Wait times are critical", {"wait", "critical"})
BackendAnswers == {OperationsFine, NoDelays, WaitIsCritical}

\* an earlier turn as the caller replays it: a plain question and answer,
\* or one answered through a tool call (ids of earlier turns are negative)
PlainTurn == <<UserMessage("earlier question"), AssistantMessage("earlier answer")>>
ToolTurn(n) ==
    <<UserMessage("earlier question"),
      [role |-> "assistant", content |-> "",
       tool_calls |-> <<ToolCall(0 - n, "get_dashboard_state", "{}")>>],
      [role |-> "tool", tool_call_id |-> 0 - n, name |-> "get_dashboard_state",
       content |-> json_dumps(EmptyDict)],
      AssistantMessage("earlier answer")>>

\* the transcripts of at most n earlier turns
RECURSIVE Transcripts(_)
Transcripts(n) ==
    IF n = 0 THEN {<<>>}
    ELSE Transcripts(n - 1)
         \cup {t \o PlainTurn : t \in Transcripts(n - 1)}
         \cup {t \o ToolTurn(Len(t) + 1) : t \in Transcripts(n - 1)}

\* no history, or earlier turns followed by the new question, which the
\* chat page appends to its history before it calls process_query
\* (frontend/pages/ai_chatbot.py): the first question of a session, or one
\* after MaxHistoryTurns earlier turns
Histories ==
    {<<>>, <<UserMessage("new question")>>}
    \cup {t \o <<UserMessage("new question")>> :
             t \in Transcripts(MaxHistoryTurns) \ Transcripts(MaxHistoryTurns - 1)}

\* the tool-call lists a reply can carry when `made` calls were made before
RECURSIVE CallLists(_, _)
CallLists(made, n) ==
    IF n = 0 THEN {<<>>}
    ELSE LET shorter == CallLists(made, n - 1)
         IN shorter \cup
            {Append(cs, ToolCall(made + Len(cs) + 1, c[1], c[2])) :
                cs \in {x \in shorter : Len(x) = n - 1}, c \in RequestableCalls}

\* the names in self.tools
RegisteredTools ==
    {"get_dashboard_state", "filter_data", "analyze_delays", "get_recommendations"}

Unregistered(names) ==
    Cardinality({i \in DOMAIN names : names[i] \notin RegisteredTools})

\* the replies with tool calls the backend can give after the calls `made`
Requests(made) ==
    {cs \in CallLists(Len(made), MaxCalls) :
        /\ cs # <<>>
        /\ Len(made) + Len(cs) <= MaxToolCalls
        /\ Unregistered([i \in DOMAIN made |-> made[i].function])
           + Unregistered([i \in DOMAIN cs |-> cs[i].function.name])
              <= MaxUnknownCalls}

(***************************************************************************)
(* One process_query invocation.  It blocks at each backend call and at    *)
(* each tool execution; every action runs the code from one blocking point *)
(* to the next (or to the return).                                         *)
(***************************************************************************)
\* the fields of the agent set by DashboardAgent.__init__
AgentFields ==
    [few_shot_examples |-> few_shot_examples, tools |-> RegisteredTools]

AgentIdle ==
    /\ pc = "idle"
    /\ messages = <<>>
    /\ iteration = 0
    /\ function_calls_made = <<>>
    /\ last_function_result = PyNone
    /\ pending = <<>>
    /\ backend_calls = 0
    /\ executions = <<>>
    /\ replies = <<>>
    /\ result = PyNone
    /\ agent = AgentFields

\* no interleaved invocations
NoInvocations == inv = <<>>

KBIdle == kb_metric = "wait_time" /\ kb_value = 0 /\ kb_result = PyNone
ValidatorIdle == v_data = PyNone /\ v_passes = <<>>

Init ==
    /\ AgentIdle
    /\ conversation_history \in Histories
    /\ data \in DataStates
    /\ KBIdle
    /\ ValidatorIdle
    /\ NoInvocations

StartQuery_aliasing ==
    /\ pc = "idle"
    /\ \E role \in StakeholderRoles :
         messages' = BuildMessages("new question", conversation_history, role)
    /\ conversation_history' = Append(conversation_history, UserMessage("new question"))
    /\ pc' = "await"
    /\ UNCHANGED <<data, iteration, function_calls_made,
                   last_function_result, pending, backend_calls, executions,
                   replies, result>>
    /\ UNCHANGED <<kb_vars, v_vars, agent, inv>>

\* process_query up to the first backend call
StartQuery ==
    /\ pc = "idle"
    /\ \E role \in StakeholderRoles :
         messages' = BuildMessages("new question", conversation_history, role)
    /\ pc' = "await"
    /\ UNCHANGED <<conversation_history, data, iteration, function_calls_made,
                   last_function_result, pending, backend_calls, executions,
                   replies, result>>
    /\ UNCHANGED <<kb_vars, v_vars, agent, inv>>

BackendFails_retrying ==
    /\ pc = "await"
    /\ iteration < max_iterations
    /\ backend_calls' = backend_calls + 1
    /\ replies' = Append(replies, -1)
    /\ IF backend_calls = 0
       THEN pc' = "await" /\ UNCHANGED result
       ELSE pc' = "done" /\ result' = ErrorPayload("backend call failed")
    /\ UNCHANGED <<conversation_history, data, messages, iteration,
                   function_calls_made, last_function_result, pending, executions>>
    /\ UNCHANGED <<kb_vars, v_vars, agent, inv>>

\* requests.post raises, or the status is an error: the except branches of
\* _call_azure_with_tools (re-raise) and of process_query
BackendFails ==
    /\ pc = "await"
    /\ iteration < max_iterations
    /\ backend_calls' = backend_calls + 1
    /\ replies' = Append(replies, -1)
    /\ result' = ErrorPayload("backend call failed")
    /\ pc' = "done"
    /\ UNCHANGED <<conversation_history, data, messages, iteration,
                   function_calls_made, last_function_result, pending, executions>>
    /\ UNCHANGED <<kb_vars, v_vars, agent, inv>>

\* the reply has no tool calls: the final-answer branch, then the validator
BackendAnswers_(content) ==
    /\ pc = "await"
    /\ iteration < max_iterations
    /\ backend_calls' = backend_calls + 1
    /\ replies' = Append(replies, 0)
    /\ result' = _validate_and_enhance_response(
                     FinalResult(content, function_calls_made, last_function_result))
    /\ pc' = "done"
    /\ UNCHANGED <<conversation_history, data, messages, iteration,
                   function_calls_made, last_function_result, pending, executions>>
    /\ UNCHANGED <<kb_vars, v_vars, agent, inv>>

BackendAnswer == \E content \in BackendAnswers : BackendAnswers_(content)

\* the reply carries tool calls: append it and start on the calls
BackendRequestsTools ==
    /\ pc = "await"
    /\ iteration < max_iterations
    /\ \E tool_calls \in Requests(function_calls_made) :
         /\ messages' = Append(messages,
                [role |-> "assistant", content |-> "", tool_calls |-> tool_calls])
         /\ pending' = tool_calls
         /\ replies' = Append(replies, Len(tool_calls))
    /\ backend_calls' = backend_calls + 1
    /\ pc' = "exec"
    /\ UNCHANGED <<conversation_history, data, iteration, function_calls_made,
                   last_function_result, executions, result>>
    /\ UNCHANGED <<kb_vars, v_vars, agent, inv>>

\* one pass of "for tool_call in message['tool_calls']"; after the last
\* call of the reply, iteration += 1 and the while test.  An exception of
\* json.loads, or one that escapes the executor, is re-raised by
\* _call_azure_with_tools and caught by process_query.
ExecuteTool ==
    /\ pc = "exec"
    /\ pending # <<>>
    /\ LET tool_call == Head(pending)
           function_name == tool_call.function.name
           function_args == json_loads(tool_call.function.arguments)
           run == _execute_function_with_insights(data, function_name, function_args)
           calls == RecordCall(function_calls_made, function_name, function_args)
       IN IF IsRaised(function_args) \/ IsRaised(run)
          THEN /\ result' = ErrorPayload(IF IsRaised(function_args)
                                         THEN function_args.raised ELSE run.raised)
               /\ pc' = "done"
               /\ UNCHANGED <<messages, iteration, function_calls_made,
                              last_function_result, pending, executions>>
          ELSE /\ last_function_result' = run.result
               /\ function_calls_made' = calls
               /\ executions' = Append(executions,
                      [id |-> tool_call.id, name |-> function_name,
                       arguments |-> function_args,
                       data_calls |-> run.data_calls])
               /\ messages' = Append(messages,
                      ToolMessage(tool_call, function_name, run.result))
               /\ pending' = Tail(pending)
               /\ IF Tail(pending) # <<>>
                  THEN /\ pc' = "exec"
                       /\ UNCHANGED <<iteration, result>>
                  ELSE /\ iteration' = iteration + 1
                       /\ IF iteration + 1 < max_iterations
                          THEN pc' = "await" /\ UNCHANGED result
                          ELSE /\ pc' = "done"
                               /\ result' = _validate_and_enhance_response(
                                                MaxIterationsResult(calls))
    /\ UNCHANGED <<conversation_history, data, backend_calls, replies>>
    /\ UNCHANGED <<kb_vars, v_vars, agent, inv>>

Next ==
    \/ StartQuery
    \/ BackendFails
    \/ BackendAnswer
    \/ BackendRequestsTools
    \/ ExecuteTool

Spec == Init /\ [][Next]_vars

(***************************************************************************)
(* Two process_query invocations on the one agent, interleaved at their    *)
(* blocking points (the backend call and the tool execution).  messages,   *)
(* iteration, function_calls_made and last_function_result are locals of   *)
(* each invocation; the agent's fields and the Data Access collaborator    *)
(* are shared.  inv[i] holds the locals of invocation i and the replies    *)
(* the backend gave it (script).                                           *)
(***************************************************************************)
MaxInterleavedToolCalls == 2    \* tool calls requested in one invocation

Invocations == {1, 2}

\* the user_query of each invocation
Queries == <<"first question", "second question">>

\* the histories invocation i can be given
InterleavedHistories(i) ==
    {<<>>, PlainTurn \o <<UserMessage(Queries[i])>>}

\* the tool calls the backend asks of each invocation (different tools, so
\* that the audit trails of the two can be told apart), with ids of its own
InterleavedCalls(i) ==
    IF i = 1
    THEN {<<"get_dashboard_state", "{}">>, <<"analyze_delays", "{berth: B07}">>}
    ELSE {<<"get_recommendations", "{focus_area: delays}">>}

InterleavedRequests(i, made) ==
    IF Len(made) >= MaxInterleavedToolCalls THEN {}
    ELSE {<<ToolCall(100 * i + Len(made) + 1, c[1], c[2])>> : c \in InterleavedCalls(i)}

\* the locals of an invocation before its first statement
NotStarted(history, user_query) ==
    [pc |-> "idle", history |-> history, user_query |-> user_query,
     messages |-> <<>>, iteration |-> 0, function_calls_made |-> <<>>,
     last_function_result |-> PyNone, pending |-> <<>>, script |-> <<>>,
     result |-> PyNone]

\* process_query up to the first backend call
Started(s) ==
    [s EXCEPT !.pc = "await",
              !.messages = BuildMessages(s.user_query, s.history, "middle_management")]

\* the backend call raises
Failed(s) ==
    [s EXCEPT !.pc = "done",
              !.script = Append(@, [kind |-> "fail"]),
              !.result = ErrorPayload("backend call failed")]

\* the reply has no tool calls
Answered(s, content) ==
    [s EXCEPT !.pc = "done",
              !.script = Append(@, [kind |-> "answer", content |-> content]),
              !.result = _validate_and_enhance_response(
                             FinalResult(content, s.function_calls_made,
                                         s.last_function_result))]

\* the reply carries tool calls
Requested(s, tool_calls) ==
    [s EXCEPT !.pc = "exec",
              !.script = Append(@, [kind |-> "tools", tool_calls |-> tool_calls]),
              !.messages = Append(@, [role |-> "assistant", content |-> "",
                                      tool_calls |-> tool_calls]),
              !.pending = tool_calls]

\* one pass of the for loop over the tool calls of the reply
Ran(s, d) ==
    LET tool_call == Head(s.pending)
        function_name == tool_call.function.name
        function_args == json_loads(tool_call.function.arguments)
        run == _execute_function_with_insights(d, function_name, function_args)
        calls == RecordCall(s.function_calls_made, function_name, function_args)
        rest == Tail(s.pending)
        limit == rest = <<>> /\ s.iteration + 1 >= max_iterations
    IN IF IsRaised(function_args) \/ IsRaised(run)
       THEN [s EXCEPT !.pc = "done",
                      !.result = ErrorPayload(IF IsRaised(function_args)
                                              THEN function_args.raised
                                              ELSE run.raised)]
       ELSE [s EXCEPT !.last_function_result = run.result,
                      !.function_calls_made = calls,
                      !.messages = Append(@, ToolMessage(tool_call, function_name,
                                                         run.result)),
                      !.pending = rest,
                      !.iteration = IF rest = <<>> THEN @ + 1 ELSE @,
                      !.pc = IF rest # <<>> THEN "exec"
                             ELSE IF limit THEN "done" ELSE "await",
                      !.result = IF limit
                                 THEN _validate_and_enhance_response(
                                          MaxIterationsResult(calls))
                                 ELSE @]

InitInterleaved ==
    /\ AgentIdle
    /\ conversation_history = <<>>
    /\ data \in DataStates
    /\ KBIdle
    /\ ValidatorIdle
    /\ \E h1 \in InterleavedHistories(1), h2 \in InterleavedHistories(2) :
         inv = <<NotStarted(h1, Queries[1]), NotStarted(h2, Queries[2])>>

Start(i) ==
    /\ inv[i].pc = "idle"
    /\ inv' = [inv EXCEPT ![i] = Started(@)]
    /\ UNCHANGED <<kb_vars, v_vars, agent_vars>>

BackendFailsFor(i) ==
    /\ inv[i].pc = "await"
    /\ inv[i].iteration < max_iterations
    /\ inv' = [inv EXCEPT ![i] = Failed(@)]
    /\ UNCHANGED <<kb_vars, v_vars, agent_vars>>

BackendAnswersFor(i) ==
    /\ inv[i].pc = "await"
    /\ inv[i].iteration < max_iterations
    /\ \E content \in BackendAnswers :
         inv' = [inv EXCEPT ![i] = Answered(@, content)]
    /\ UNCHANGED <<kb_vars, v_vars, agent_vars>>

BackendRequestsToolsFor(i) ==
    /\ inv[i].pc = "await"
    /\ inv[i].iteration < max_iterations
    /\ \E tool_calls \in InterleavedRequests(i, inv[i].function_calls_made) :
         inv' = [inv EXCEPT ![i] = Requested(@, tool_calls)]
    /\ UNCHANGED <<kb_vars, v_vars, agent_vars>>

ExecuteToolFor_shared(i) ==
    /\ inv[i].pc = "exec"
    /\ inv[i].pending # <<>>
    /\ inv' = [j \in DOMAIN inv |->
                 IF j = i THEN Ran(inv[i], data)
                 ELSE [inv[j] EXCEPT !.messages =
                          Append(@, Ran(inv[i], data).messages[
                                        Len(Ran(inv[i], data).messages)])]]
    /\ UNCHANGED <<kb_vars, v_vars, agent_vars>>

ExecuteToolFor(i) ==
    /\ inv[i].pc = "exec"
    /\ inv[i].pending # <<>>
    /\ inv' = [inv EXCEPT ![i] = Ran(@, data)]
    /\ UNCHANGED <<kb_vars, v_vars, agent_vars>>

NextInterleaved ==
    \E i \in Invocations :
        \/ Start(i)
        \/ BackendFailsFor(i)
        \/ BackendAnswersFor(i)
        \/ BackendRequestsToolsFor(i)
        \/ ExecuteToolFor(i)

SpecInterleaved == InitInterleaved /\ [][NextInterleaved]_vars

(***************************************************************************)
(* The knowledge base on its own: one interpret call on one input          *)
(***************************************************************************)
MaxNegative == 20       \* tenths below zero
MaxValue == 1020        \* tenths: 102.0 hours or percent
Huge == 1000000

KBValues == {0 - Huge, Huge} \cup ((0 - MaxNegative) .. MaxValue)

DatabaseDown ==
    [raises |-> TRUE, avg_wait_time |-> 0, avg_arrival_accuracy |-> 0,
     total_utilization |-> 0, total_carbon_saved |-> 0, count |-> 0]

InitKB ==
    /\ kb_metric \in Metrics
    /\ kb_value \in KBValues
    /\ kb_result = PyNone
    /\ AgentIdle
    /\ conversation_history = <<>>
    /\ data = DatabaseDown
    /\ ValidatorIdle
    /\ NoInvocations

InterpretWaitTime ==
    /\ kb_metric = "wait_time"
    /\ kb_result = PyNone
    /\ kb_result' = interpret_wait_time(kb_value)
    /\ UNCHANGED <<kb_metric, kb_value, v_vars, agent_vars, inv>>

InterpretArrivalAccuracy ==
    /\ kb_metric = "arrival_accuracy"
    /\ kb_result = PyNone
    /\ kb_result' = interpret_arrival_accuracy(kb_value)
    /\ UNCHANGED <<kb_metric, kb_value, v_vars, agent_vars, inv>>

InterpretBerthUtilization ==
    /\ kb_metric = "berth_utilization"
    /\ kb_result = PyNone
    /\ kb_result' = interpret_berth_utilization(kb_value)
    /\ UNCHANGED <<kb_metric, kb_value, v_vars, agent_vars, inv>>

NextKB ==
    \/ InterpretWaitTime
    \/ InterpretArrivalAccuracy
    \/ InterpretBerthUtilization

SpecKB == InitKB /\ [][NextKB]_vars

(***************************************************************************)
(* The validator on its own: repeated passes over one response_data        *)
(***************************************************************************)
MaxAnswerKeywords == 2  \* keywords in the answer under validation
MaxPasses == 2

ValidatorDataStates ==
    [raises : {FALSE},
     avg_wait_time : {0, 10, 50, 72},
     avg_arrival_accuracy : {0, 880, 920},
     total_utilization : {0, 600, 800, 900},
     total_carbon_saved : {0, 100},
     count : {4}]

\* the last ToolResult of a run: none, an empty dict, or what an executor
\* returned
ValidatorRawData ==
    {PyNone, EmptyDict}
    \cup {_execute_function_with_insights(d, name, EmptyDict).result :
            d \in ValidatorDataStates,
            name \in {"get_dashboard_state", "filter_data", "analyze_delays"}}

ValidatorAnswers ==
    {Text("answer", kws) :
        kws \in {K \in SUBSET Keywords : Cardinality(K) <= MaxAnswerKeywords}}

InitValidator ==
    /\ \/ \E answer \in ValidatorAnswers, raw \in ValidatorRawData :
            v_data = FinalResult(answer, <<>>, raw)
       \/ v_data = MaxIterationsResult(<<>>)
    /\ v_passes = <<>>
    /\ AgentIdle
    /\ conversation_history = <<>>
    /\ data = DatabaseDown
    /\ KBIdle
    /\ NoInvocations

\* response_data = self._validate_and_enhance_response(response_data)
ValidatePass ==
    /\ v_data # PyNone
    /\ Len(v_passes) < MaxPasses
    /\ v_passes' = Append(v_passes,
           _validate_and_enhance_response(
               IF v_passes = <<>> THEN v_data ELSE v_passes[Len(v_passes)]))
    /\ UNCHANGED <<v_data, kb_vars, agent_vars, inv>>

NextValidator == ValidatePass

SpecValidator == InitValidator /\ [][NextValidator]_vars

(***************************************************************************)
(* The tool executor on its own: one call of                               *)
(* _execute_function_with_insights on one state of the port database.      *)
(* executions logs the call and the Data Access queries it made,           *)
(* last_function_result is the ToolResult.                                 *)
(***************************************************************************)
MaxExecutorWait == 80   \* tenths: average waits of 0.0 to 8.0 hours

\* what the port database can hold: every average wait up to the bound and
\* a negative one, metrics at 0 (no data) and off target, with and without
\* vessels; or a database that is down
ExecutorDataStates ==
    [raises : {FALSE},
     avg_wait_time : {0 - Scale} \cup (0 .. MaxExecutorWait),
     avg_arrival_accuracy : {0, 880},
     total_utilization : {0, 900},
     total_carbon_saved : {100},
     count : {0, 4}]
    \cup {DatabaseDown}

\* the arguments the backend gives a tool
ExecutorArguments ==
    {EmptyDict, [berth |-> "B07"], [focus_area |-> "delays"],
     [focus_area |-> "efficiency"], [focus_area |-> "utilization"]}

InitExecutor ==
    /\ AgentIdle
    /\ conversation_history = <<>>
    /\ data \in ExecutorDataStates
    /\ KBIdle
    /\ ValidatorIdle
    /\ NoInvocations

\* function_result = self._execute_function_with_insights(name, arguments)
ExecuteFunction ==
    /\ executions = <<>>
    /\ \E function_name \in RegisteredTools \cup {"unknown_tool"},
          arguments \in ExecutorArguments :
         LET run == _execute_function_with_insights(data, function_name, arguments)
         IN /\ ~IsRaised(run)
            /\ last_function_result' = run.result
            /\ executions' = <<[id |-> 0, name |-> function_name,
                                arguments |-> arguments,
                                data_calls |-> run.data_calls]>>
    /\ UNCHANGED <<pc, conversation_history, data, messages, iteration,
                   function_calls_made, pending, backend_calls, replies,
                   result, agent>>
    /\ UNCHANGED <<kb_vars, v_vars, inv>>

NextExecutor == ExecuteFunction

SpecExecutor == InitExecutor /\ [][NextExecutor]_vars

(***************************************************************************)
(* Properties of the orchestrator (checked under Spec)                     *)
(***************************************************************************)
Done == pc = "done"

\* every reply of the backend so far requested at least one tool call
AlwaysRequestedTools == replies # <<>> /\ \A i \in DOMAIN replies : replies[i] > 0

\* C1: when every reply of the backend requests a tool call, process_query
\* returns after at most max_iterations backend calls and its result
\* carries the warning field.
C1_AlwaysToolsEndsWithWarning ==
    /\ backend_calls <= max_iterations
    /\ (Done /\ AlwaysRequestedTools) => "warning" \in DOMAIN result

\* C2: when the first reply has no tool calls, the result has
\* functions_called = [] and data_accessed = false, and no executor ran.
C2_DirectAnswerIsUngrounded ==
    (Done /\ replies = <<0>>) =>
        /\ "functions_called" \in DOMAIN result
        /\ result.functions_called = <<>>
        /\ result.data_accessed = FALSE
        /\ executions = <<>>

C2_Witness ==
    /\ Done
    /\ replies = <<0>>
    /\ result.response.body = "No delays, operations fine"
    /\ result.function_calls_made = 0

\* the ids of a list of tool calls, and the tool_call_ids of the tool
\* messages that directly follow position i of the Conversation
CallIds(tool_calls) == [k \in DOMAIN tool_calls |-> tool_calls[k].id]
IsReply(m) == m.role = "assistant" /\ "tool_calls" \in DOMAIN m
RECURSIVE ToolIdsFrom(_, _)
ToolIdsFrom(msgs, i) ==
    IF i > Len(msgs) \/ msgs[i].role # "tool" THEN <<>>
    ELSE <<msgs[i].tool_call_id>> \o ToolIdsFrom(msgs, i + 1)

\* C3: once the calls of a reply have been processed, the tool messages
\* that follow the assistant message answer its calls one for one, in the
\* order requested.
C3_ToolMessagesInRequestOrder ==
    pc \in {"await", "done"} =>
        \A i \in DOMAIN messages :
            IsReply(messages[i]) =>
                ToolIdsFrom(messages, i + 1) = CallIds(messages[i].tool_calls)

\* C4: at every backend call, each tool message of the Conversation refers
\* to a tool call of an assistant message before it.
C4_ToolMessagesReferenceEarlierCall ==
    pc = "await" =>
        \A i \in DOMAIN messages :
            messages[i].role = "tool" =>
                \E j \in 1 .. (i - 1) :
                    /\ IsReply(messages[j])
                    /\ \E k \in DOMAIN messages[j].tool_calls :
                           messages[j].tool_calls[k].id = messages[i].tool_call_id

\* the run of the concrete scenario: one get_dashboard_state call, then a
\* final answer, on a day whose average wait time is 7.2 hours
DashboardThenAnswer ==
    /\ Done
    /\ replies = <<1, 0>>
    /\ Len(executions) = 1
    /\ executions[1].name = "get_dashboard_state"
    /\ ~data.raises
    /\ data.avg_wait_time = 72

HasCriticalNote(text) ==
    \E i \in DOMAIN text.notes : "critical" \in NoteKeywords(text.notes[i])

\* C6 (as stated): after get_dashboard_state and the answer "Operations
\* fine, no issues" at 7.2 hours of wait, the response carries a note
\* with the word CRITICAL.
C6_OperationsFineGetsCriticalNote ==
    (DashboardThenAnswer /\ result.response.body = "Operations fine, no issues")
        => HasCriticalNote(result.response)

\* C6 (amended): in the same run, an answer that mentions wait or delay
\* but neither critical nor concerning carries a note with the word
\* CRITICAL after the validator pass.
C6_WaitAnswerGetsCriticalNote ==
    (/\ DashboardThenAnswer
     /\ result.response.kws \cap {"wait", "delay"} # {}
     /\ result.response.kws \cap {"critical", "concerning"} = {})
        => HasCriticalNote(result.response)

C6_Witness ==
    /\ DashboardThenAnswer
    /\ result.response.body = "No delays, operations fine"
    /\ Len(result.response.notes) = 1
    /\ result.response.notes[1].message.value = 72

(***************************************************************************)
(* Properties of the validator (checked under SpecValidator)               *)
(***************************************************************************)
\* C5: a second validator pass returns what the first pass returned.
C5_ValidatorIdempotent ==
    Len(v_passes) >= 2 => v_passes[2] = v_passes[1]

\* the response data a pass was given, and what it returned
PassInput(p) == IF p = 1 THEN v_data ELSE v_passes[p - 1]
PassOutput(p) == v_passes[p]

\* the notes pass p appended
NotesOfPass(p) ==
    LET before == Len(Get(PassInput(p), "response", EmptyText).notes)
        after == PassOutput(p).response.notes
    IN SubSeq(after, before + 1, Len(after))

\* the place of the topic of a note in the order of the keyword checks
TopicOf(note) ==
    CASE note.kind = "Important Context" -> 1
      [] note.kind = "Performance Note" -> 2
      [] note.kind \in {"Capacity Alert", "Opportunity"} -> 3
      [] note.kind = "Sustainability Impact" -> 4

\* C27: the notes of one pass come in the order wait/delay, accuracy,
\* utilization/capacity, carbon/emission, at most one note for a topic.
C27_NotesInKeywordCheckOrder ==
    \A p \in DOMAIN v_passes :
        LET notes == NotesOfPass(p)
        IN \A i, j \in DOMAIN notes :
              i < j => TopicOf(notes[i]) < TopicOf(notes[j])

\* a pass that appended the wait-time note and then the capacity alert
C27_Witness ==
    /\ v_passes # <<>>
    /\ Len(NotesOfPass(1)) >= 2
    /\ NotesOfPass(1)[1].kind = "Important Context"
    /\ NotesOfPass(1)[2].kind = "Capacity Alert"

\* C29: a pass changes no field but response; the text it was given is a
\* prefix of the response it returns; and with no tool data (raw_data
\* absent, none or empty) it returns the response unchanged.
C29_ValidatorOnlyAppends ==
    \A p \in DOMAIN v_passes :
        LET given == PassInput(p)
            returned == PassOutput(p)
            raw_data == Get(given, "raw_data", PyNone)
        IN /\ DOMAIN returned = DOMAIN given
           /\ \A f \in DOMAIN given \ {"response"} : returned[f] = given[f]
           /\ returned.response.body = given.response.body
           /\ returned.response.kws = given.response.kws
           /\ Len(returned.response.notes) >= Len(given.response.notes)
           /\ SubSeq(returned.response.notes, 1, Len(given.response.notes))
                 = given.response.notes
           /\ (raw_data = PyNone \/ raw_data = EmptyDict) => returned = given

\* a pass that appended to an answer, and the fields it left alone
C29_Witness ==
    /\ v_passes # <<>>
    /\ v_passes[1].response.body = "answer"
    /\ Len(v_passes[1].response.notes) >= 1
    /\ v_passes[1].raw_data = v_data.raw_data
    /\ v_passes[1] # v_data

(***************************************************************************)
(* Properties of the knowledge base (checked under SpecKB)                 *)
(***************************************************************************)
Interpreted == kb_result # PyNone

\* C7: every interpret call returns a classification with a non-empty
\* level and raises nothing; an input that matches no range gets the
\* level "unknown".
C7_InterpretIsTotal ==
    Interpreted =>
        /\ ~IsRaised(kb_result)
        /\ "level" \in DOMAIN kb_result
        /\ kb_result.level # ""
        /\ (\A i \in DOMAIN PERFORMANCE_THRESHOLDS[kb_metric] :
               LET r == PERFORMANCE_THRESHOLDS[kb_metric][i]
               IN ~(Ge(kb_value, r.min) /\ Le(kb_value, r.max)))
           => kb_result.level = "unknown"

C7_Witness ==
    /\ Interpreted
    /\ kb_metric = "wait_time"
    /\ kb_value < 0
    /\ kb_result.level = "unknown"

\* adjacent ranges of a list of ranges meet: max of one = min of the next
Contiguous(ranges) ==
    \A i \in 1 .. (Len(ranges) - 1) : ranges[i].max = ranges[i + 1].min

\* the ranges of a table in ascending order of min
RECURSIVE AscendingByMin(_)
AscendingByMin(ranges) ==
    IF ranges = <<>> THEN <<>>
    ELSE LET lowest == CHOOSE i \in DOMAIN ranges :
                          \A j \in DOMAIN ranges : ranges[i].min.v <= ranges[j].min.v
             others == [k \in 1 .. (Len(ranges) - 1) |->
                          IF k < lowest THEN ranges[k] ELSE ranges[k + 1]]
         IN <<ranges[lowest]>> \o AscendingByMin(others)

\* C8 (as stated): in table order, adjacent ranges of the table of the
\* metric in use meet.
C8_ContiguousInTableOrder ==
    Contiguous(PERFORMANCE_THRESHOLDS[kb_metric])

\* C8 (amended): taken in ascending order of min, adjacent ranges of
\* every table meet (no gap, no overlap).
C8_ContiguousInAscendingOrder ==
    Contiguous(AscendingByMin(PERFORMANCE_THRESHOLDS[kb_metric]))

C8_Witness ==
    /\ kb_metric = "arrival_accuracy"
    /\ Interpreted
    /\ ~Contiguous(PERFORMANCE_THRESHOLDS[kb_metric])

\* the plausible domain of a metric: hours >= 0, percentages 0..100
Plausible(metric, x) ==
    IF metric = "wait_time" THEN x >= 0 ELSE x >= 0 /\ x <= 100 * Scale

\* C9: the membership test of every interpret function is the half-open
\* one, and a plausible value passes the test of exactly one range.
C9_ExactlyOneHalfOpenRange ==
    (Interpreted /\ Plausible(kb_metric, kb_value)) =>
        /\ \A i \in DOMAIN PERFORMANCE_THRESHOLDS[kb_metric] :
               InRange(kb_metric, kb_value, PERFORMANCE_THRESHOLDS[kb_metric][i])
               <=> InRangeHalfOpen(kb_value, PERFORMANCE_THRESHOLDS[kb_metric][i])
        /\ Cardinality(Matching(kb_metric, kb_value)) = 1

\* the reference table of wait time
WaitReferenceLevel(v) ==
    IF v < 2 * Scale THEN "excellent"
    ELSE IF v < 4 * Scale THEN "good"
    ELSE IF v < 6 * Scale THEN "concerning"
    ELSE "critical"

\* C10: interpret_wait_time gives every value >= 0 the level of the
\* reference table; 7.2 is critical with action needed, 1.0 is excellent
\* with no action needed.
C10_WaitTimeMatchesReference ==
    (Interpreted /\ kb_metric = "wait_time" /\ kb_value >= 0) =>
        /\ kb_result.level = WaitReferenceLevel(kb_value)
        /\ kb_value = 72 => (kb_result.level = "critical" /\ kb_result.action_needed)
        /\ kb_value = 10 => (kb_result.level = "excellent" /\ ~kb_result.action_needed)

C10_Witness ==
    /\ Interpreted
    /\ kb_metric = "wait_time"
    /\ kb_value = 72
    /\ kb_result.level = "critical"
    /\ kb_result.action_needed

\* the levels of a metric that call for attention
NeedsAttention(metric) ==
    CASE metric = "wait_time" -> {"concerning", "critical"}
      [] metric = "arrival_accuracy" -> {"needs_improvement", "poor"}
      [] metric = "berth_utilization" ->
            {PERFORMANCE_THRESHOLDS[metric][i].level :
                i \in DOMAIN PERFORMANCE_THRESHOLDS[metric]} \ {"optimal"}

\* C11: a classification with a known level has action_needed true
\* exactly when the level is in the needs-attention subset of its metric.
C11_ActionNeededIffNeedsAttention ==
    (Interpreted /\ kb_result.level # "unknown") =>
        (kb_result.action_needed <=> kb_result.level \in NeedsAttention(kb_metric))

C11_Witness ==
    /\ Interpreted
    /\ kb_metric = "arrival_accuracy"
    /\ kb_result.level = "needs_improvement"
    /\ kb_result.action_needed

\* C12: every classification an interpret function returns, the one of an
\* out-of-range input included, has the fields level, icon, message and a
\* boolean action_needed.
C12_ClassificationHasAllFields ==
    Interpreted =>
        /\ {"level", "icon", "message", "action_needed"} \subseteq DOMAIN kb_result
        /\ kb_result.action_needed \in BOOLEAN

(***************************************************************************)
(* Failures inside an invocation (checked under Spec)                      *)
(***************************************************************************)
\* the tool message appended for the tool call with this id carries an
\* error ToolResult
HasErrorToolMessage(id) ==
    \E j \in DOMAIN messages :
        /\ messages[j].role = "tool"
        /\ messages[j].tool_call_id = id
        /\ "error" \in DOMAIN messages[j].content.json

\* the tool calls requested so far whose arguments do not parse
MalformedCalls ==
    {c \in UNION {{m.tool_calls[k] : k \in DOMAIN m.tool_calls} :
                     m \in {messages[i] : i \in {j \in DOMAIN messages : IsReply(messages[j])}}} :
        IsRaised(json_loads(c.function.arguments))}

\* C13: a tool call whose arguments fail to parse does not abort the
\* invocation: once the calls of its reply are dealt with, the call has an
\* error ToolResult as its tool message, and the result is not the error
\* payload of the parse failure.
C13_MalformedArgumentsGetErrorToolResult ==
    (pc \in {"await", "done"}) =>
        /\ \A c \in MalformedCalls : HasErrorToolMessage(c.id)
        /\ (Done /\ "error" \in DOMAIN result) => result.error # "JSONDecodeError"

\* the arguments a registered tool can be called with
ToolArguments == {EmptyDict, [berth |-> "B07"], [focus_area |-> "delays"]}

\* C14: when Data Access raises, the executor returns an {"error": ...}
\* ToolResult for every registered tool, the tool message with the id of
\* the call carries it, and no invocation ends in an error payload because
\* of it.
C14_DataAccessFailureIsToolError ==
    data.raises =>
        /\ \A name \in RegisteredTools, arguments \in ToolArguments :
              LET run == _execute_function_with_insights(data, name, arguments)
              IN /\ ~IsRaised(run)
                 /\ DOMAIN run.result = {"error"}
        /\ \A i \in DOMAIN executions :
              executions[i].name \in RegisteredTools
                 => HasErrorToolMessage(executions[i].id)
        /\ (Done /\ "error" \in DOMAIN result)
              => result.error \in {"backend call failed", "JSONDecodeError"}

\* the database is down, two tools failed in two iterations, and the
\* backend then gave its final answer
C14_Witness ==
    /\ data.raises
    /\ Done
    /\ "raw_data" \in DOMAIN result
    /\ Len(replies) >= 3
    /\ Len(executions) >= 2
    /\ \A i \in DOMAIN executions : HasErrorToolMessage(executions[i].id)

\* the last backend call of the invocation failed
BackendFailed == replies # <<>> /\ replies[Len(replies)] = -1

\* C15: when a backend call fails, at whatever iteration, process_query
\* returns a result (no exception escapes) that carries response,
\* functions_called and data_accessed like any other result, and an error
\* string.
C15_BackendFailureGivesWellFormedResult ==
    (Done /\ BackendFailed) =>
        /\ ~IsRaised(result)
        /\ {"response", "functions_called", "data_accessed", "error"}
              \subseteq DOMAIN result

\* the loop ran out of iterations: every one of max_iterations backend
\* calls was answered with tool calls, and all of them were executed
ReachedIterationLimit ==
    /\ Len(replies) = max_iterations
    /\ \A i \in DOMAIN replies : replies[i] > 0
    /\ pending = <<>>

\* the last reply of the backend was a final answer
EndedInFinalReply == replies # <<>> /\ replies[Len(replies)] = 0

CannedResponse == Text("I've analyzed multiple aspects of the dashboard data.", {})

\* C16: a result carries warning exactly when the iteration limit was
\* reached without a final reply; a result from a final reply has no
\* warning; the iteration-limit result has the canned response and no
\* error field.
C16_WarningIffIterationLimit ==
    Done =>
        /\ "warning" \in DOMAIN result <=> ReachedIterationLimit
        /\ EndedInFinalReply => "warning" \notin DOMAIN result
        /\ ReachedIterationLimit =>
              /\ result.response = CannedResponse
              /\ "error" \notin DOMAIN result

C16_Witness ==
    /\ Done
    /\ ReachedIterationLimit
    /\ result.warning = "Max iterations reached"
    /\ result.response = CannedResponse

\* C17: the Conversation of the first backend call is the system persona,
\* the stakeholder context, the four few-shot messages, the last
\* min(5, n) messages of the n-message history in their order, and the new
\* user message: 7 + min(5, n) messages.
C17_FirstConversationLayout ==
    (pc = "await" /\ backend_calls = 0) =>
        LET n == Len(conversation_history)
            k == IF n < 5 THEN n ELSE 5
        IN /\ Len(messages) = 7 + k
           /\ messages[1] = SystemMessage("system_prompt")
           /\ messages[2].role = "system"
           /\ messages[2].content \in StakeholderRoles
           /\ \A i \in 1 .. 4 : messages[2 + i] = few_shot_examples[i]
           /\ Len(few_shot_examples) = 4
           /\ \A i \in 1 .. k : messages[6 + i] = conversation_history[n - k + i]
           /\ messages[7 + k] = UserMessage("new question")

\* a history longer than the window: its first messages are left out
C17_Witness ==
    /\ pc = "await"
    /\ backend_calls = 0
    /\ Len(conversation_history) > 5
    /\ Len(messages) = 12
    /\ messages[7] = conversation_history[Len(conversation_history) - 4]

\* the tool calls the replies from position i of a Conversation on ask
\* for, in the order asked
RECURSIVE RequestedFrom(_, _)
RequestedFrom(msgs, i) ==
    IF i > Len(msgs) THEN <<>>
    ELSE (IF IsReply(msgs[i]) THEN msgs[i].tool_calls ELSE <<>>)
         \o RequestedFrom(msgs, i + 1)

\* the length of the Conversation of the first backend call
FirstConversationLen ==
    Len(BuildMessages("new question", conversation_history, "middle_management"))

\* C20: a result that ends in a final reply or in the iteration limit
\* lists in functions_called, in execution order, the (function,
\* arguments) pair of every tool call executed in the invocation, calls
\* that returned an error ToolResult included, and function_calls_made is
\* the length of that list.
C20_FunctionsCalledIsTheAuditTrail ==
    (Done /\ (EndedInFinalReply \/ ReachedIterationLimit)) =>
        LET requested == RequestedFrom(messages, FirstConversationLen + 1)
        IN /\ Len(result.functions_called) = Len(requested)
           /\ \A i \in DOMAIN requested :
                 /\ result.functions_called[i].function = requested[i].function.name
                 /\ result.functions_called[i].arguments
                       = json_loads(requested[i].function.arguments)
                 /\ executions[i].id = requested[i].id
           /\ Len(executions) = Len(requested)
           /\ result.function_calls_made = Len(result.functions_called)

\* two iterations, one of them with a call that returned an error
\* ToolResult, then the final answer
C20_Witness ==
    /\ Done
    /\ EndedInFinalReply
    /\ Len(replies) = 3
    /\ Len(result.functions_called) >= 2
    /\ \E i \in DOMAIN result.functions_called :
          /\ result.functions_called[i].function = "unknown_tool"
          /\ HasErrorToolMessage(executions[i].id)

(***************************************************************************)
(* What an invocation leaves alone                                         *)
(***************************************************************************)
\* C18: no step of an invocation changes the caller's history list or the
\* agent's few-shot exemplars and tool definitions, so that the
\* Conversation a later invocation builds from them depends on its own
\* arguments only.  (The tables of the knowledge base are module-level
\* literals that no statement assigns to; the model has them as constant
\* definitions.)
C18_InvocationLeavesInputsUnchanged ==
    [][/\ conversation_history' = conversation_history
       /\ agent' = agent
       /\ agent'.few_shot_examples = few_shot_examples
       /\ agent'.tools = RegisteredTools]_vars

\* an invocation that has appended a reply and tool messages to its
\* Conversation and returned, with the history and the exemplars as given
C18_Witness ==
    /\ Done
    /\ Len(messages) >= FirstConversationLen + 3
    /\ conversation_history \in Histories \ {<<>>}
    /\ agent = AgentFields
    /\ SubSeq(messages, 3, 6) = agent.few_shot_examples

(***************************************************************************)
(* Interleaved invocations (checked under SpecInterleaved)                 *)
(***************************************************************************)
\* an invocation run on its own: the locals after the replies of a script
RECURSIVE RanAll(_, _)
RanAll(s, d) == IF s.pc = "exec" THEN RanAll(Ran(s, d), d) ELSE s

RECURSIVE Replayed(_, _, _)
Replayed(s, script, d) ==
    IF script = <<>> \/ s.pc = "done" THEN s
    ELSE LET reply == Head(script)
             next == CASE reply.kind = "fail" -> Failed(s)
                       [] reply.kind = "answer" -> Answered(s, reply.content)
                       [] reply.kind = "tools" ->
                             RanAll(Requested(s, reply.tool_calls), d)
         IN Replayed(next, Tail(script), d)

Alone(i) ==
    Replayed(Started(NotStarted(inv[i].history, inv[i].user_query)),
             inv[i].script, data)

\* the messages invocation i put into its Conversation itself: its user
\* message and everything after it
OwnMessages(i) ==
    LET first == Len(BuildMessages(inv[i].user_query, inv[i].history,
                                   "middle_management"))
    IN {inv[i].messages[k] : k \in first .. Len(inv[i].messages)}

ElementsOf(xs) == {xs[k] : k \in DOMAIN xs}

\* C19: when two invocations interleave, no message appended by one is in
\* the Conversation or audit trail of the other, and at every backend
\* call and at the return the Conversation, audit trail and result of each
\* are those of the same invocation run alone.
C19_InterleavedInvocationsAreIsolated ==
    \A i \in DOMAIN inv :
        /\ inv[i].pc \in {"await", "done"} => inv[i] = Alone(i)
        /\ \A j \in DOMAIN inv \ {i} :
              /\ inv[i].pc # "idle" =>
                    OwnMessages(i) \cap ElementsOf(inv[j].messages) = {}
              /\ ElementsOf(inv[i].function_calls_made)
                    \cap ElementsOf(inv[j].function_calls_made) = {}

\* both invocations are in their second iteration at once, each between
\* the reply of the backend and the execution of the tool it asked for
C19_Witness ==
    /\ inv # <<>>
    /\ \A i \in DOMAIN inv :
          /\ inv[i].pc = "exec"
          /\ Len(inv[i].function_calls_made) = 1
          /\ Len(inv[i].script) = 2
          /\ inv[i].pending # <<>>

(***************************************************************************)
(* The fields of a result (checked under Spec)                             *)
(***************************************************************************)
\* the ToolResult of the last tool call executed in the invocation: what
\* the last tool message of the Conversation carries
LastToolResult ==
    IF executions = <<>> THEN PyNone
    ELSE LET last == CHOOSE j \in DOMAIN messages :
                        /\ messages[j].role = "tool"
                        /\ messages[j].tool_call_id = executions[Len(executions)].id
         IN messages[last].content.json

\* C21: in every result that ends in a final answer or in the iteration
\* limit, raw_data is the ToolResult of the last tool call executed, or
\* none when no tool was executed (a result without the key counts as
\* raw_data = none).
C21_RawDataIsLastToolResult ==
    (Done /\ (EndedInFinalReply \/ ReachedIterationLimit)) =>
        Get(result, "raw_data", PyNone) = LastToolResult

\* a backend call of the invocation has failed
SomeBackendCallFailed == \E i \in DOMAIN replies : replies[i] = -1

\* C26: the orchestrator does not retry: from the failure of a backend
\* call on, the invocation makes no backend call and executes no tool, and
\* an invocation whose k-th backend call failed has made exactly k backend
\* calls and has returned.
C26_NoRetryAfterBackendFailure ==
    /\ [](SomeBackendCallFailed =>
             /\ Done
             /\ replies[Len(replies)] = -1
             /\ backend_calls = Len(replies)
             /\ "error" \in DOMAIN result)
    /\ [][SomeBackendCallFailed =>
             /\ backend_calls' = backend_calls
             /\ executions' = executions
             /\ messages' = messages]_vars

\* the third backend call failed, after two replies with tool calls
C26_Witness ==
    /\ Done
    /\ Len(replies) = 3
    /\ replies[3] = -1
    /\ backend_calls = 3
    /\ Len(executions) >= 2

\* C28: in every result that ends in a final answer or in the iteration
\* limit, data_accessed is true exactly when functions_called is not empty.
C28_DataAccessedIffFunctionsCalled ==
    (Done /\ (EndedInFinalReply \/ ReachedIterationLimit)) =>
        (result.data_accessed <=> result.functions_called # <<>>)

C28_Witness ==
    /\ Done
    /\ ReachedIterationLimit
    /\ result.data_accessed
    /\ Len(result.functions_called) >= max_iterations

\* the executions of tools that are not registered
UnknownExecutions ==
    {i \in DOMAIN executions : executions[i].name \notin RegisteredTools}

\* C30: a call of a tool that is not registered calls no Data Access
\* method and yields {"error": "Unknown function: <name>"}; its tool
\* message has the id of the call, it is recorded in functions_called, and
\* the invocation does not end in an error payload because of it.
C30_UnknownToolIsAnsweredWithError ==
    /\ \A i \in UnknownExecutions :
          /\ executions[i].data_calls = <<>>
          /\ \E j \in DOMAIN messages :
                /\ messages[j].role = "tool"
                /\ messages[j].tool_call_id = executions[i].id
                /\ messages[j].name = executions[i].name
                /\ messages[j].content.json = ErrorResult("Unknown function")
          /\ function_calls_made[i].function = executions[i].name
          /\ (Done /\ "functions_called" \in DOMAIN result)
                => result.functions_called[i].function = executions[i].name
    /\ \A c \in {c \in UNION {{m.tool_calls[k] : k \in DOMAIN m.tool_calls} :
                     m \in {messages[i] : i \in {j \in DOMAIN messages :
                                j > FirstConversationLen /\ IsReply(messages[j])}}} :
                    c.function.name \notin RegisteredTools
                    /\ ~IsRaised(json_loads(c.function.arguments))} :
          (pc = "await" \/ (Done /\ "functions_called" \in DOMAIN result))
             => \E i \in UnknownExecutions : executions[i].id = c.id
    /\ (Done /\ "error" \in DOMAIN result)
          => result.error \in {"backend call failed", "JSONDecodeError"}

\* an unknown tool was called in the first iteration, the loop went on to
\* another backend call and tool, and the backend then answered
C30_Witness ==
    /\ Done
    /\ EndedInFinalReply
    /\ Len(replies) = 3
    /\ 1 \in UnknownExecutions
    /\ Len(executions) >= 2
    /\ result.functions_called[1].function = "unknown_tool"

(***************************************************************************)
(* Properties of the tool executor (checked under SpecExecutor)            *)
(***************************************************************************)
\* the executor has run the tool of this name on a database that answers
Executed_(function_name) ==
    /\ executions # <<>>
    /\ executions[1].name = function_name
    /\ ~data.raises

\* C22: when filter_data gets the unknown classification for the average
\* wait of its summary, it still returns the retrieved data and no
\* {"error": ...} ToolResult.
C22_UnknownClassificationIsNotAnError ==
    (/\ Executed_("filter_data")
     /\ data.count > 0
     /\ data.avg_wait_time # 0
     /\ interpret_wait_time(data.avg_wait_time).level = "unknown") =>
        /\ "error" \notin DOMAIN last_function_result
        /\ {"count", "summary"} \subseteq DOMAIN last_function_result

\* C23: an execution of a registered tool queries Data Access exactly
\* once.
C23_ExactlyOneDataAccessCall ==
    (executions # <<>> /\ executions[1].name \in RegisteredTools) =>
        Len(executions[1].data_calls) = 1

\* the first recommendation of each band of wait time
BandNote(level) ==
    CASE level = "critical" ->
             "CRITICAL: wait time - Expedite current operations immediately"
      [] level = "concerning" ->
             "HIGH PRIORITY: wait time - Monitor closely and accelerate operations"
      [] level = "good" -> "Monitor - wait time trending above 2-hour target"
      [] level = "excellent" -> "Wait time within target - maintain current operations"

\* C24: the recommendations for a wait time are those of the band that
\* interpret_wait_time classifies it in, at every value; for a critical
\* value the immediate-action recommendation is followed by the generic
\* mitigation.
C24_RecommendationBandIsClassificationBand ==
    (/\ Executed_("get_recommendations")
     /\ Get(executions[1].arguments, "focus_area", "") = "delays"
     /\ data.avg_wait_time > 0) =>
        LET level == interpret_wait_time(data.avg_wait_time).level
            recs == last_function_result.recommendations
        IN \E k \in DOMAIN recs :
              /\ recs[k] = BandNote(level)
              /\ level = "critical" =>
                    /\ k + 1 \in DOMAIN recs
                    /\ recs[k + 1] = "Emergency actions: Fast-track departures, consider reassignment to alternative berths"

\* C25: the ToolResult of get_dashboard_state has, for each of the
\* numeric metrics avg_wait_time, avg_arrival_accuracy and
\* total_utilization of the data (0 included), the classification of that
\* value.
C25_DashboardStateCarriesInterpretations ==
    Executed_("get_dashboard_state") =>
        LET performance == last_function_result.performance
            berths == last_function_result.berths
        IN /\ "wait_time_interpretation" \in DOMAIN performance
           /\ performance.wait_time_interpretation
                 = interpret_wait_time(data.avg_wait_time)
           /\ "accuracy_interpretation" \in DOMAIN performance
           /\ performance.accuracy_interpretation
                 = interpret_arrival_accuracy(data.avg_arrival_accuracy)
           /\ "utilization_interpretation" \in DOMAIN berths
           /\ berths.utilization_interpretation
                 = interpret_berth_utilization(data.total_utilization)

====
